---- MODULE Spec2Model ----
(***************************************************************************)
(* turf-nearest-neighbor: nearestNeighbor(dataset, options) computes the   *)
(* Clark-Evans nearest-neighbor statistics of the centroids of a feature   *)
(* collection and attaches them to the study-area polygon.                 *)
(*                                                                         *)
(* JavaScript numbers are modelled as binary floating-point values with a  *)
(* significand of Precision bits, round-to-nearest-even after every        *)
(* operation, NaN and the two infinities.  The exponent is unbounded, so   *)
(* an infinity arises only from a division by zero, and zero is unsigned   *)
(* (no operand of the program is negative zero).                           *)
(***************************************************************************)
EXTENDS Integers, Sequences, FiniteSets, Bags

----------------------------------------------------------------------------
(* Number: [k, m, e] is m * 2^e when k = "fin" (m = 0, or                  *)
(* 2^(Precision-1) <= |m| < 2^Precision), NaN when k = "nan", and          *)
(* m * Infinity (m = 1 or -1) when k = "inf".                              *)

Precision == 14

Fin(m, e) == [k |-> "fin", m |-> m, e |-> e]

NaN == [k |-> "nan", m |-> 0, e |-> 0]

Infinity(s) == [k |-> "inf", m |-> s, e |-> 0]

Zero == Fin(0, 0)

Abs(x) == IF x < 0 THEN 0 - x ELSE x

Sgn(x) == IF x < 0 THEN 0 - 1 ELSE IF x > 0 THEN 1 ELSE 0

RECURSIVE BitLen(_)
\* the number of bits of x >= 0
BitLen(x) ==
    IF x < 2 THEN x
    ELSE IF x >= 65536 THEN 16 + BitLen(x \div 65536)
    ELSE IF x >= 256 THEN 8 + BitLen(x \div 256)
    ELSE IF x >= 16 THEN 4 + BitLen(x \div 16)
    ELSE 1 + BitLen(x \div 2)

\* q + r / 2^s rounded to the nearest integer, ties to even (0 <= r < 2^s)
RoundUp(q, r, h) == IF r > h \/ (r = h /\ q % 2 = 1) THEN q + 1 ELSE q

\* a / 2^s rounded to the nearest integer, ties to even (a >= 0, s >= 1)
RoundShift(a, s) == RoundUp(a \div (2 ^ s), a % (2 ^ s), 2 ^ (s - 1))

\* sg * q * 2^e, where q <= 2^Precision has come out of a rounding
Rounded(sg, q, e) ==
    IF q = 2 ^ Precision THEN Fin(sg * (2 ^ (Precision - 1)), e + 1) ELSE Fin(sg * q, e)

\* m * 2^e, where |m| > 0 has len bits
NormalizeLen(m, e, len) ==
    IF len > Precision
    THEN Rounded(Sgn(m), RoundShift(Abs(m), len - Precision), e + len - Precision)
    ELSE Fin(m * (2 ^ (Precision - len)), e - (Precision - len))

\* the Number nearest to the real m * 2^e
Normalize(m, e) == IF m = 0 THEN Zero ELSE NormalizeLen(m, e, BitLen(Abs(m)))

FromInt(i) == Normalize(i, 0)

IsNaN(a) == a.k = "nan"

IsFinite(a) == a.k = "fin"

Sign(a) == Sgn(a.m)

Neg(a) == [a EXCEPT !.m = 0 - a.m]

\* hi + lo for finite hi, lo other than 0 with hi.e >= lo.e.  More than
\* Precision places apart, lo is less than half a unit in hi's last place:
\* the sum is hi, or the number before hi when hi is a power of two, lo has
\* the other sign and is more than half the smaller unit below hi.
AddAligned(hi, lo) ==
    IF hi.e - lo.e > Precision
    THEN (IF /\ hi.e - lo.e = Precision + 1
             /\ Sgn(hi.m) # Sgn(lo.m)
             /\ Abs(hi.m) = 2 ^ (Precision - 1)
             /\ Abs(lo.m) > 2 ^ (Precision - 1)
          THEN Fin(Sgn(hi.m) * (2 ^ Precision - 1), hi.e - 1)
          ELSE hi)
    ELSE Normalize(hi.m * (2 ^ (hi.e - lo.e)) + lo.m, lo.e)

FAdd(a, b) ==
    IF IsNaN(a) \/ IsNaN(b) THEN NaN
    ELSE IF a.k = "inf" THEN (IF b.k = "inf" /\ b.m # a.m THEN NaN ELSE a)
    ELSE IF b.k = "inf" THEN b
    ELSE IF a.m = 0 THEN b
    ELSE IF b.m = 0 THEN a
    ELSE IF a.e >= b.e THEN AddAligned(a, b) ELSE AddAligned(b, a)

FSub(a, b) == FAdd(a, Neg(b))

FMul(a, b) ==
    IF IsNaN(a) \/ IsNaN(b) THEN NaN
    ELSE IF a.k = "inf" \/ b.k = "inf"
         THEN (IF Sign(a) * Sign(b) = 0 THEN NaN ELSE Infinity(Sign(a) * Sign(b)))
    ELSE Normalize(a.m * b.m, a.e + b.e)

\* the quotient is developed in two steps of HalfBits and RestBits bits
HalfBits == (Precision + 1) \div 2

RestBits == Precision + 1 - HalfBits

\* sg * (q1 + r1 / den) * 2^(e + RestBits), the last bit sticky
QuotientRest(sg, q1, r1, den, e) ==
    Normalize(sg * (2 * (q1 * (2 ^ RestBits) + ((r1 * (2 ^ RestBits)) \div den))
                    + (IF (r1 * (2 ^ RestBits)) % den = 0 THEN 0 ELSE 1)),
              e - 1)

\* sg * (num / den) * 2^(e + Precision + 1) for significands num, den
Quotient(sg, num, den, e) ==
    QuotientRest(sg, (num * (2 ^ HalfBits)) \div den, (num * (2 ^ HalfBits)) % den,
                 den, e)

FDiv(a, b) ==
    IF IsNaN(a) \/ IsNaN(b) THEN NaN
    ELSE IF a.k = "inf"
         THEN (IF b.k = "inf" THEN NaN
               ELSE Infinity(IF Sign(b) < 0 THEN 0 - a.m ELSE a.m))
    ELSE IF b.k = "inf" THEN Zero
    ELSE IF b.m = 0 THEN (IF a.m = 0 THEN NaN ELSE Infinity(Sign(a)))
    ELSE IF a.m = 0 THEN Zero
    ELSE Quotient(Sign(a) * Sign(b), Abs(a.m), Abs(b.m), a.e - b.e - Precision - 1)

RECURSIVE ISqrtIn(_, _, _)
RECURSIVE ISqrtStep(_, _, _, _)
\* the largest s in lo..hi with s * s <= x
ISqrtIn(x, lo, hi) == IF lo = hi THEN lo ELSE ISqrtStep(x, lo, hi, (lo + hi + 1) \div 2)

ISqrtStep(x, lo, hi, mid) ==
    IF mid * mid <= x THEN ISqrtIn(x, mid, hi) ELSE ISqrtIn(x, lo, mid - 1)

\* sqrt(x * 2^e) for an integer x of 2 * Precision - 1 or 2 * Precision
\* bits and e even, from s, the integer part of sqrt(x): s + 1 when
\* x > (s + 1/2)^2
RootOf(x, e, s) == Rounded(1, IF x - s * s > s THEN s + 1 ELSE s, e \div 2)

\* sqrt(m * 2^e) with m shifted left by sh bits
ShiftedRoot(m, e, sh) ==
    RootOf(m * (2 ^ sh), e - sh, ISqrtIn(m * (2 ^ sh), 2 ^ (Precision - 1), 2 ^ Precision))

FSqrt(a) ==
    IF IsNaN(a) THEN NaN
    ELSE IF a.k = "inf" THEN (IF a.m > 0 THEN a ELSE NaN)
    ELSE IF a.m < 0 THEN NaN
    ELSE IF a.m = 0 THEN Zero
    ELSE ShiftedRoot(a.m, a.e,
                     IF (a.e - Precision) % 2 = 0 THEN Precision ELSE Precision - 1)

\* a < b (false when either is NaN); the significands of two finite numbers
\* other than 0 have the same length, so the exponents decide first
FLess(a, b) ==
    IF IsNaN(a) \/ IsNaN(b) THEN FALSE
    ELSE IF a.k = "inf" THEN a.m < 0 /\ ~(b.k = "inf" /\ b.m < 0)
    ELSE IF b.k = "inf" THEN b.m > 0
    ELSE IF Sgn(a.m) # Sgn(b.m) THEN Sgn(a.m) < Sgn(b.m)
    ELSE IF a.m > 0 THEN a.e < b.e \/ (a.e = b.e /\ a.m < b.m)
    ELSE IF a.m < 0 THEN a.e > b.e \/ (a.e = b.e /\ a.m < b.m)
    ELSE FALSE

----------------------------------------------------------------------------
(* Bounds of the model *)

\* the longest dataset the caller passes
MaxFeatures == 3

\* the number of calls of nearestNeighbor the caller makes
MaxCalls == 2

----------------------------------------------------------------------------
(* GeoJSON values.  A position is a pair of Numbers; a feature of the      *)
(* dataset is [type, coords]; a polygon feature on the heap is             *)
(* [geometry (its outer ring), properties].  A property that may be absent *)
(* is a sequence of length 0 or 1.                                         *)

Pos(x, y) == <<FromInt(x), FromInt(y)>>

Point(x, y) == [type |-> "Point", coords |-> <<Pos(x, y)>>]

LineString(a, b) == [type |-> "LineString", coords |-> <<a, b>>]

Polygon(ring) == [type |-> "Polygon", coords |-> ring]

SquareRing(w, s, e, n) == <<Pos(w, s), Pos(e, s), Pos(e, n), Pos(w, n), Pos(w, s)>>

\* the features the caller builds datasets from: two points, and a line and
\* a polygon with the same centroid, (1, 1)
FeaturePool ==
    { Point(0, 0), Point(4, 4),
      LineString(Pos(0, 0), Pos(2, 2)),
      Polygon(SquareRing(0, 0, 2, 2)) }

\* the four corners of the unit square
Corners == { Point(0, 0), Point(0, 1), Point(1, 0), Point(1, 1) }

DatasetsOver(pool, lo, hi) == UNION { [1..len -> pool] : len \in lo..hi }

\* options.studyArea, as documented: absent, an array of four numbers, or a
\* reference to the caller's polygon feature (heap[1])
Absent == [kind |-> "absent", box |-> << >>, ref |-> 0]

BoxOption(b) == [kind |-> "array", box |-> b, ref |-> 0]

PolygonOption == [kind |-> "polygon", box |-> << >>, ref |-> 1]

StudyAreaOptions ==
    { Absent,
      BoxOption(<<FromInt(0), FromInt(0), FromInt(2), FromInt(2)>>),
      PolygonOption }

UnitSquareRing == SquareRing(0, 0, 1, 1)

\* a polygon whose ring encloses no area
FlatRing == <<Pos(0, 0), Pos(1, 1), Pos(2, 2), Pos(0, 0)>>

CallerRings == { UnitSquareRing, FlatRing }

CallerPolygon(ring) ==
    [geometry |-> ring,
     properties |-> [name |-> <<7>>, nearestNeighborAnalysis |-> << >>]]

----------------------------------------------------------------------------
(* The geometry library (@turf/bbox, bbox-polygon, centroid, area,         *)
(* distance, nearest-point), in planar coordinates: positions in           *)
(* kilometers, distance in kilometers, area in square meters.              *)

RECURSIVE AllCoords(_)
AllCoords(ds) == IF ds = << >> THEN << >> ELSE Head(ds).coords \o AllCoords(Tail(ds))

RECURSIVE BboxOf(_, _)
BboxOf(cs, b) ==
    IF cs = << >> THEN b
    ELSE LET c == Head(cs)
         IN  BboxOf(Tail(cs),
                    << IF FLess(c[1], b[1]) THEN c[1] ELSE b[1],
                       IF FLess(c[2], b[2]) THEN c[2] ELSE b[2],
                       IF FLess(b[3], c[1]) THEN c[1] ELSE b[3],
                       IF FLess(b[4], c[2]) THEN c[2] ELSE b[4] >>)

\* boundingBox(features) -> [minX, minY, maxX, maxY]
Bbox(ds) ==
    BboxOf(AllCoords(ds), <<Infinity(1), Infinity(1), Infinity(0 - 1), Infinity(0 - 1)>>)

\* polygonFromBBox(bbox) -> a new polygon feature without properties
BboxPolygon(b) ==
    [geometry |-> << <<b[1], b[2]>>, <<b[3], b[2]>>, <<b[3], b[4]>>,
                     <<b[1], b[4]>>, <<b[1], b[2]>> >>,
     properties |-> [name |-> << >>, nearestNeighborAnalysis |-> << >>]]

RECURSIVE SumX(_)
SumX(cs) == IF cs = << >> THEN Zero ELSE FAdd(Head(cs)[1], SumX(Tail(cs)))

RECURSIVE SumY(_)
SumY(cs) == IF cs = << >> THEN Zero ELSE FAdd(Head(cs)[2], SumY(Tail(cs)))

\* centroid(feature) -> the mean of the feature's vertices (a polygon's
\* closing vertex left out), as a new point
Centroid(f) ==
    LET cs == IF f.type = "Polygon" THEN SubSeq(f.coords, 1, Len(f.coords) - 1)
              ELSE f.coords
    IN  << FDiv(SumX(cs), FromInt(Len(cs))), FDiv(SumY(cs), FromInt(Len(cs))) >>

RECURSIVE Shoelace(_)
Shoelace(ring) ==
    IF Len(ring) < 2 THEN Zero
    ELSE FAdd(FSub(FMul(ring[1][1], ring[2][2]), FMul(ring[2][1], ring[1][2])),
              Shoelace(Tail(ring)))

FAbs(a) == IF Sign(a) < 0 THEN Neg(a) ELSE a

\* area(polygonFeature) -> square meters
Area(poly) == FMul(FDiv(FAbs(Shoelace(poly.geometry)), FromInt(2)), FromInt(1000000))

Hypot(dx, dy) == FSqrt(FAdd(FMul(dx, dx), FMul(dy, dy)))

\* planarOrGeodeticDistance(pointA, pointB) -> kilometers
Distance(p, q) == Hypot(FSub(p[1], q[1]), FSub(p[2], q[2]))

RECURSIVE DistancesTo(_, _, _)
\* the distances nearestAmong measures: from target to each candidate;
\* cands are the candidates' indices in features
DistancesTo(features, target, cands) ==
    IF cands = << >> THEN << >>
    ELSE <<Distance(target, features[Head(cands)])>>
         \o DistancesTo(features, target, Tail(cands))

\* which of several equidistant candidates nearestAmong returns
TiePolicies == { "first", "last" }

RECURSIVE Scan(_, _, _, _)
\* the place of the least of d[1..k], best being the least of those before k
Scan(d, k, best, tie) ==
    IF k > Len(d) THEN best
    ELSE Scan(d, k + 1,
              IF (tie = "first" /\ FLess(d[k], d[best]))
                 \/ (tie = "last" /\ ~FLess(d[best], d[k]))
              THEN k ELSE best,
              tie)

\* nearestAmong(point, candidateSet) -> the candidate at the least distance,
\* as its place among the candidates, whose distances are d (not empty)
NearestPoint(d, tie) == Scan(d, 2, 1, tie)

----------------------------------------------------------------------------
(* The program: nearestNeighbor(dataset, options) *)

VARIABLES
    dataset,   \* the caller's feature collection
    options,   \* the caller's options.studyArea
    heap,      \* the polygon features that exist; heap[1] is the caller's
    last,      \* the latest call: its input, its locals and its outcome
    prev,      \* the call before it
    calls      \* the number of calls made

vars == <<dataset, options, heap, last, prev, calls>>

NoCall ==
    [kind |-> "none", error |-> "none", obj |-> 0, dataset |-> << >>,
     studyArea |-> 0, features |-> << >>, nearest |-> << >>, distances |-> << >>, stats |-> << >>]

One == FromInt(1)

Two == FromInt(2)

\* the literal 0.000001
Micro == FDiv(One, FromInt(1000000))

\* the literal 0.26136
VarianceCoefficient == FDiv(FromInt(26136), FromInt(100000))

\* options.studyArea || bboxPolygon(bbox(dataset)), then the conversion of a
\* 4-number array: the heap after it and the polygon studyArea refers to
\* (ref = 0: studyArea is still an array)
ResolveIgnoringOptions(h, opt, ds) ==
    [heap |-> Append(h, BboxPolygon(Bbox(ds))), ref |-> Len(h) + 1]

ResolveStudyArea(h, opt, ds) ==
    IF opt.kind = "absent"
    THEN [heap |-> Append(h, BboxPolygon(Bbox(ds))), ref |-> Len(h) + 1]
    ELSE IF opt.kind = "array"
    THEN (IF Len(opt.box) = 4
          THEN [heap |-> Append(h, BboxPolygon(opt.box)), ref |-> Len(h) + 1]
          ELSE [heap |-> h, ref |-> 0])
    ELSE [heap |-> h, ref |-> opt.ref]

\* the array of the call before, never emptied
StaleFeatures == last.features

\* features = []
FreshFeatures == << >>

\* featureEach(dataset, feature => features.push(centroid(feature)))
RECURSIVE PushCentroids(_)
PushCentroids(ds) ==
    IF ds = << >> THEN << >> ELSE <<Centroid(Head(ds))>> \o PushCentroids(Tail(ds))

IsPointFeature(f) == f.type = "Point"

\* a loop that takes only the point features
CentroidsOfPoints(ds) == PushCentroids(SelectSeq(ds, IsPointFeature))

Centroids(ds) == PushCentroids(ds)

RECURSIVE FilterOthers(_, _, _)
FilterOthers(features, i, j) ==
    IF j > Len(features) THEN << >>
    ELSE (IF j # i THEN <<j>> ELSE << >>) \o FilterOthers(features, i, j + 1)

\* a filter that compares coordinates: f.geometry differs from feature's
OthersByCoordinates(features, i) ==
    SelectSeq(FilterOthers(features, 0, 1), LAMBDA j : features[j] # features[i])

\* features.filter(f => f !== feature): the centroids are distinct objects,
\* so the identity of features[j] is its index j
TheOtherFeatures(features, i) == FilterOthers(features, i, 1)

RECURSIVE CandidateDistancesFrom(_, _)
CandidateDistancesFrom(features, i) ==
    IF i > Len(features) THEN << >>
    ELSE <<DistancesTo(features, features[i], TheOtherFeatures(features, i))>>
         \o CandidateDistancesFrom(features, i + 1)

\* per feature, the distances to theOtherFeatures that nearestPoint measures
CandidateDistances(features) == CandidateDistancesFrom(features, 1)

RECURSIVE FirstOtherFrom(_, _)
FirstOtherFrom(features, i) ==
    IF i > Len(features) THEN << >>
    ELSE <<Head(TheOtherFeatures(features, i))>> \o FirstOtherFrom(features, i + 1)

\* theOtherFeatures.features[0] in place of the nearest point
FirstOthers(features, table, tie) == FirstOtherFrom(features, 1)

RECURSIVE NearestFrom(_, _, _, _)
NearestFrom(features, table, tie, i) ==
    IF i > Len(features) THEN << >>
    ELSE <<TheOtherFeatures(features, i)[NearestPoint(table[i], tie)]>>
         \o NearestFrom(features, table, tie, i + 1)

\* the neighbor nearestPoint(feature, theOtherFeatures) returns, per feature
NearestChoices(features, table, tie) == NearestFrom(features, table, tie, 1)

RECURSIVE DistancesFrom(_, _, _)
DistancesFrom(features, nearest, i) ==
    IF i > Len(features) THEN << >>
    ELSE <<Distance(features[i], features[nearest[i]])>>
         \o DistancesFrom(features, nearest, i + 1)

\* features.map(feature => distance(feature, nearestPoint(feature, others)))
NearestDistances(features, nearest) == DistancesFrom(features, nearest, 1)

RECURSIVE Reduce(_, _)
\* values.reduce((sum, value) => sum + value, acc)
Reduce(values, acc) ==
    IF values = << >> THEN acc ELSE Reduce(Tail(values), FAdd(acc, Head(values)))

\* ... .reduce(..., 0) / n
ObservedMeanDistance(distances, n) == FDiv(Reduce(distances, Zero), FromInt(n))

\* area(studyArea) * 0.000001
StudyAreaSqKm(poly) == FMul(Area(poly), Micro)

\* the statistics with the square root of the density left out
StatisticsWithoutSqrt(n, observedMeanDistance, theArea) ==
    LET popDensity == FDiv(FromInt(n), theArea)
        expectedMeanDistance == FDiv(One, FMul(Two, popDensity))
        variance == FDiv(VarianceCoefficient, FSqrt(FMul(FromInt(n), popDensity)))
    IN  [observedMeanDistance |-> observedMeanDistance,
         expectedMeanDistance |-> expectedMeanDistance,
         nearestNeighborIndex |-> FDiv(observedMeanDistance, expectedMeanDistance),
         numberOfPoints |-> n,
         zScore |-> FDiv(FSub(observedMeanDistance, expectedMeanDistance), variance)]

CalculateNearestNeighborStatistics(n, observedMeanDistance, theArea) ==
    LET popDensity == FDiv(FromInt(n), theArea)
        expectedMeanDistance == FDiv(One, FMul(Two, FSqrt(popDensity)))
        variance == FDiv(VarianceCoefficient, FSqrt(FMul(FromInt(n), popDensity)))
    IN  [observedMeanDistance |-> observedMeanDistance,
         expectedMeanDistance |-> expectedMeanDistance,
         nearestNeighborIndex |-> FDiv(observedMeanDistance, expectedMeanDistance),
         numberOfPoints |-> n,
         zScore |-> FDiv(FSub(observedMeanDistance, expectedMeanDistance), variance)]

\* studyArea.properties = {nearestNeighborAnalysis: analysis}
ReplaceProperties(h, ref, analysis) ==
    [h EXCEPT ![ref].properties =
        [name |-> << >>, nearestNeighborAnalysis |-> <<analysis>>]]

\* studyArea.properties.nearestNeighborAnalysis = analysis
Annotate(h, ref, analysis) ==
    [h EXCEPT ![ref].properties.nearestNeighborAnalysis = <<analysis>>]

\* One call.  nearestPoint fails on an empty candidate collection, and the
\* assignment to studyArea.properties fails when studyArea is still an array;
\* the function itself throws nothing.  Each local is bound to its value
\* once, in the order the code computes it.
NearestNeighbor ==
    /\ calls < MaxCalls
    /\ \E resolved \in {ResolveStudyArea(heap, options, dataset)},
          features \in {FreshFeatures \o Centroids(dataset)} :
         LET n == Len(features)
             stranded == \E i \in 1..n : TheOtherFeatures(features, i) = << >>
             call == [NoCall EXCEPT !.dataset = dataset, !.features = features,
                                    !.studyArea = resolved.ref]
         IN  IF stranded
             THEN /\ heap' = resolved.heap
                  /\ last' = [call EXCEPT !.kind = "threw", !.error = "Error"]
             ELSE \E table \in {CandidateDistances(features)} :
                  \E tie \in TiePolicies :
                  \E nearest \in {NearestChoices(features, table, tie)} :
                  \E distances \in {NearestDistances(features, nearest)} :
                  \E observedMeanDistance \in {ObservedMeanDistance(distances, n)} :
                    LET done == [call EXCEPT !.nearest = nearest,
                                             !.distances = distances]
                    IN  IF resolved.ref = 0
                        THEN /\ heap' = resolved.heap
                             /\ last' = [done EXCEPT !.kind = "threw",
                                                     !.error = "TypeError"]
                        ELSE \E analysis \in {CalculateNearestNeighborStatistics(
                                     n, observedMeanDistance,
                                     StudyAreaSqKm(resolved.heap[resolved.ref]))} :
                               /\ heap' = Annotate(resolved.heap, resolved.ref, analysis)
                               /\ last' = [done EXCEPT !.kind = "returned",
                                                       !.obj = resolved.ref,
                                                       !.stats = <<analysis>>]
    /\ prev' = last
    /\ calls' = calls + 1
    /\ UNCHANGED <<dataset, options>>

\* Between two calls the caller passes the same features in another order:
\* two neighboring features change places.
Reorder(i) ==
    /\ calls >= 1
    /\ calls < MaxCalls
    /\ dataset = last.dataset
    /\ i + 1 <= Len(dataset)
    /\ dataset[i] # dataset[i + 1]
    /\ dataset' = [dataset EXCEPT ![i] = dataset[i + 1], ![i + 1] = dataset[i]]
    /\ UNCHANGED <<options, heap, last, prev, calls>>

InitOver(datasets, studyAreas, rings) ==
    /\ dataset \in datasets
    /\ options \in studyAreas
    /\ \E ring \in rings :
          /\ options.kind = "polygon" \/ ring = UnitSquareRing
          /\ heap = <<CallerPolygon(ring)>>
    /\ last = NoCall
    /\ prev = NoCall
    /\ calls = 0

Init == InitOver(DatasetsOver(FeaturePool, 0, MaxFeatures), StudyAreaOptions, CallerRings)

Next ==
    \/ NearestNeighbor
    \/ \E i \in 1..MaxFeatures : Reorder(i)

Spec == Init /\ [][Next]_vars

\* The worked example: datasets of two to four distinct corners of the unit
\* square, and study areas that are the unit square.
DistinctCorners ==
    { ds \in DatasetsOver(Corners, 2, Cardinality(Corners)) :
        \A i, j \in 1..Len(ds) : i # j => ds[i] # ds[j] }

ScenarioOptions ==
    { Absent,
      BoxOption(<<FromInt(0), FromInt(0), FromInt(1), FromInt(1)>>),
      BoxOption(<<FromInt(0), FromInt(0), FromInt(2), FromInt(2)>>),
      PolygonOption }

InitScenario == InitOver(DistinctCorners, ScenarioOptions, {UnitSquareRing})

SpecScenario == InitScenario /\ [][Next]_vars

----------------------------------------------------------------------------
(* Properties *)

Returned == last.kind = "returned"

Analysis == last.stats[1]

IsZero(a) == IsFinite(a) /\ a.m = 0

RECURSIVE BagOf(_)
BagOf(seq) == IF seq = << >> THEN EmptyBag ELSE BagOf(Tail(seq)) (+) SetToBag({Head(seq)})

\* the same features, in any order
IsPermutation(a, b) == BagOf(a) = BagOf(b)

\* the resolved study area of the latest call has zero or negative area
DegenerateStudyArea ==
    /\ last.studyArea # 0
    /\ \E a \in {StudyAreaSqKm(heap[last.studyArea])} : IsFinite(a) /\ Sign(a) <= 0

\* C1: a call on a dataset of zero or one features ends in an explicit
\* InvalidInput error, and never returns statistics that hold NaN or an
\* infinity.
C1_InvalidInputRaised ==
    (last.kind # "none" /\ Len(last.dataset) <= 1)
        => /\ last.kind = "threw"
           /\ last.error = "InvalidInput"

\* C2: a call whose resolved study area has zero or negative area ends in an
\* explicit DegenerateStudyArea error: no result is returned and no
\* statistics are computed from a non-positive area.
C2_DegenerateStudyAreaRaised ==
    (last.kind # "none" /\ DegenerateStudyArea)
        => /\ last.kind = "threw"
           /\ last.error = "DegenerateStudyArea"

\* C3: when the n >= 2 centroids of the dataset are all identical, the result
\* has nearestNeighborIndex = 0 and a negative zScore, however the study area
\* was given (polygon, bounding box, or absent).
C3_IdenticalCentroids ==
    (/\ Returned
     /\ Len(last.features) >= 2
     /\ \A i \in 1..Len(last.features) : last.features[i] = last.features[1])
        => /\ IsZero(Analysis.nearestNeighborIndex)
           /\ ~IsNaN(Analysis.zScore)
           /\ Sign(Analysis.zScore) < 0

\* C4: numberOfPoints of the result is the number of features of the dataset:
\* the i-th feature, whatever its geometry type, gives the i-th centroid, and
\* there are no others.
C4_NumberOfPoints ==
    Returned
        => /\ Analysis.numberOfPoints = Len(last.dataset)
           /\ Len(last.features) = Len(last.dataset)
           /\ \A i \in 1..Len(last.dataset) : last.features[i] = Centroid(last.dataset[i])

C4_Witness ==
    /\ Returned
    /\ Len(last.dataset) = 3
    /\ { last.dataset[i].type : i \in 1..3 } = { "Point", "LineString", "Polygon" }

\* C5: the study area of a result is one polygon feature: with no
\* options.studyArea the rectangle of the dataset's bounding box, with a
\* 4-number array the rectangle built from that array, and with a polygon
\* feature that very feature, its geometry as the caller made it.
C5_StudyAreaResolution ==
    Returned
        => /\ last.obj \in 1..Len(heap)
           /\ options.kind = "absent"
                => /\ last.obj # 1
                   /\ heap[last.obj].geometry = BboxPolygon(Bbox(last.dataset)).geometry
           /\ options.kind = "array"
                => /\ Len(options.box) = 4
                   /\ last.obj # 1
                   /\ heap[last.obj].geometry = BboxPolygon(options.box).geometry
           /\ options.kind = "polygon"
                => /\ last.obj = options.ref
                   /\ heap[last.obj].geometry \in CallerRings

C5_Witness ==
    /\ Returned
    /\ options.kind = "array"
    /\ Len(last.dataset) = 2
    /\ heap[last.obj].geometry = SquareRing(0, 0, 2, 2)

\* C6: two calls in a row on the same dataset and options return the same
\* statistics, also when the study area is the caller's polygon, which the
\* first call annotated.
C6_Idempotent ==
    (Returned /\ prev.kind = "returned" /\ prev.dataset = last.dataset)
        => prev.stats = last.stats

C6_Witness ==
    /\ Returned
    /\ prev.kind = "returned"
    /\ prev.dataset = last.dataset
    /\ Len(last.dataset) = 3
    /\ options.kind = "polygon"
    /\ prev.obj = last.obj

\* the four corners of the unit square with a study area of area 1
IsWorkedExample ==
    /\ Len(last.dataset) = 4
    /\ { last.dataset[i] : i \in 1..4 } = Corners
    /\ StudyAreaSqKm(heap[last.obj]) = One

\* C7: in a result, expectedMeanDistance = 1 / (2 * sqrt(n / area)) and,
\* when it is not 0, nearestNeighborIndex = observedMeanDistance /
\* expectedMeanDistance; for the four corners of the unit square and a study
\* area of area 1 the values are 1, 0.25 and 4.
C7_Formula ==
    Returned
        => /\ Analysis.expectedMeanDistance =
                FDiv(One, FMul(Two, FSqrt(FDiv(FromInt(Len(last.dataset)),
                                               StudyAreaSqKm(heap[last.obj])))))
           /\ ~IsZero(Analysis.expectedMeanDistance)
                => Analysis.nearestNeighborIndex =
                      FDiv(Analysis.observedMeanDistance, Analysis.expectedMeanDistance)
           /\ IsWorkedExample
                => /\ Analysis.observedMeanDistance = One
                   /\ Analysis.expectedMeanDistance = FDiv(One, FromInt(4))
                   /\ Analysis.nearestNeighborIndex = FromInt(4)

C7_Witness == Returned /\ IsWorkedExample /\ Analysis.nearestNeighborIndex = FromInt(4)

RECURSIVE LeastOf(_, _)
\* the least of the values, least so far first
LeastOf(values, least) ==
    IF values = << >> THEN least
    ELSE LeastOf(Tail(values), IF FLess(Head(values), least) THEN Head(values) ELSE least)

RECURSIVE DistancesToOthers(_, _, _)
\* the distances from centroid i to every centroid j # i
DistancesToOthers(cs, i, j) ==
    IF j > Len(cs) THEN << >>
    ELSE (IF j = i THEN << >> ELSE <<Distance(cs[i], cs[j])>>)
         \o DistancesToOthers(cs, i, j + 1)

RECURSIVE LeastDistancesFrom(_, _)
LeastDistancesFrom(cs, i) ==
    IF i > Len(cs) THEN << >>
    ELSE <<LeastOf(DistancesToOthers(cs, i, 1), Infinity(1))>>
         \o LeastDistancesFrom(cs, i + 1)

\* C8: for n >= 2 features observedMeanDistance is the mean, over the n
\* centroids, of the least distance to another centroid, another by position
\* in the dataset and not by coordinates: a feature is never its own
\* neighbor, and a feature with the same centroid is a neighbor at distance 0.
C8_ObservedMean ==
    (Returned /\ Len(last.dataset) >= 2)
        => /\ \A i \in 1..Len(last.features) : last.nearest[i] # i
           /\ \E least \in {LeastDistancesFrom(last.features, 1)} :
                 /\ last.distances = least
                 /\ Analysis.observedMeanDistance =
                       FDiv(Reduce(least, Zero), FromInt(Len(last.dataset)))

C8_Witness ==
    /\ Returned
    /\ Len(last.features) = 3
    /\ last.features[1] = last.features[2]
    /\ last.features[3] # last.features[1]
    /\ IsZero(last.distances[1])
    /\ ~IsZero(Analysis.observedMeanDistance)

\* two calls in a row on the same features, perhaps in another order and
\* with another choice among equidistant neighbors
SameFeaturesTwice ==
    /\ Returned
    /\ prev.kind = "returned"
    /\ IsPermutation(prev.dataset, last.dataset)

\* C9 as stated: the five statistics do not depend on the order of the
\* features in the dataset nor on which equidistant neighbor is selected.
C9_OrderIndependent == SameFeaturesTwice => prev.stats = last.stats

\* C9 as amended: numberOfPoints, expectedMeanDistance and the nearest
\* distances of the features (as a multiset) do not depend on the order of
\* the features nor on which equidistant neighbor is selected.
C9_SameDistances ==
    SameFeaturesTwice
        => /\ prev.stats[1].numberOfPoints = Analysis.numberOfPoints
           /\ prev.stats[1].expectedMeanDistance = Analysis.expectedMeanDistance
           /\ BagOf(prev.distances) = BagOf(last.distances)

C9_Witness ==
    /\ SameFeaturesTwice
    /\ prev.dataset # last.dataset
    /\ prev.nearest # last.nearest
    /\ prev.stats # last.stats

\* C10: a call that returns changes nothing the caller can see but the key
\* nearestNeighborAnalysis of the returned polygon, which holds the
\* statistics: the dataset and the options are as before, every polygon that
\* existed keeps its geometry and its other properties, and a polygon given
\* as options.studyArea is the one returned.
C10_Frame ==
    [][(calls' = calls + 1 /\ last'.kind = "returned")
         => /\ dataset' = dataset
            /\ options' = options
            /\ Len(heap') <= Len(heap) + 1
            /\ \A o \in 1..Len(heap) :
                  /\ heap'[o].geometry = heap[o].geometry
                  /\ heap'[o].properties.name = heap[o].properties.name
                  /\ o # last'.obj => heap'[o] = heap[o]
            /\ heap'[last'.obj].properties.nearestNeighborAnalysis = last'.stats
            /\ options.kind = "polygon" => last'.obj = options.ref]_vars

C10_Witness ==
    /\ Returned
    /\ options.kind = "polygon"
    /\ last.obj = 1
    /\ heap[1].properties.name = <<7>>
    /\ heap[1].properties.nearestNeighborAnalysis = last.stats
    /\ Len(last.dataset) >= 2

====
